---- MODULE Spec2Model ----
(***************************************************************************)
(* csim.c: a set-associative cache simulator replaying a memory trace.     *)
(*                                                                         *)
(* A 64-bit unsigned value (mem_addr_t, unsigned long long) is modelled as *)
(* the set of its bit positions that are 1: 0x10 is {4}, 0 is {}.  Shifts  *)
(* move positions and drop those that leave 0..63, which is the arithmetic *)
(* modulo 2^64 of the C operators.                                         *)
(***************************************************************************)
EXTENDS Integers, Sequences, FiniteSets, TLC

VARIABLES
    s, E, b,        \* par.s, par.E, par.b as parsed from the command line
    trace_file,     \* main's trace_file: "path", "null" or "garbage"
    pc,             \* position of main
    read_trace,     \* main's FILE *read_trace: "unset", "open" or "NULL"
    cache,          \* this_cache: sets -> lines -> [valid, access_count, tag]
    hits, misses, evictions,   \* par.hits, par.misses, par.evictions
    cmd, address,   \* the record fscanf stored last
    nread,          \* history: number of records read
    issued,         \* history: accesses the records read so far call for
    ncalls,         \* history: number of simulate_cache calls made
    lastUse,        \* history: sets -> lines -> ncalls at the line's last access
    recording,      \* history: whether trace is kept
    trace,          \* history: the records read, when recording
    allocs,         \* history: number of build_cache calls made
    frees           \* history: number of clear_cache calls made

vars == <<s, E, b, trace_file, pc, read_trace, cache, hits, misses, evictions,
          cmd, address, nread, issued, ncalls, lastUse, recording, trace,
          allocs, frees>>

----------------------------------------------------------------------------
(* Bounds *)
MaxS == 1
MaxE == 2
MaxB == 1
MaxTrace == 4
MaxHist == 3
MaxCalls == 4

(* Width of mem_addr_t *)
AddrBits == 64

----------------------------------------------------------------------------
(* 64-bit words as sets of bit positions *)

RECURSIVE Pow2(_)
Pow2(n) == IF n <= 0 THEN 1 ELSE 2 * Pow2(n - 1)

RECURSIVE BitsVal(_)
BitsVal(w) ==
    IF w = {} THEN 0
    ELSE LET i == CHOOSE x \in w : TRUE IN Pow2(i) + BitsVal(w \ {i})

Shl(w, n) == {i + n : i \in {x \in w : x + n < AddrBits}}

Shr(w, n) == {i - n : i \in {x \in w : x >= n}}

(* Addresses the trace may contain *)
A10 == {4}
A12 == {1, 4}
A18 == {3, 4}
A20 == {5}
AHi == {0, 1, 4, 63}
Addrs == {A10, A12, A18, A20, AHi}

----------------------------------------------------------------------------
(* variant: line 115 sets valid to 1 *)
EmptyLine_valid == [valid |-> 1, access_count |-> 0, tag |-> {}]

(* build_cache *)
EmptyLine == [valid |-> 0, access_count |-> 0, tag |-> {}]

build_cache(num_sets, num_lines) ==
    [si \in 0..(num_sets - 1) |-> [li \in 0..(num_lines - 1) |-> EmptyLine]]

(* simulate_cache: address decomposition *)
tag_size == AddrBits - (s + b)

(* variants: the index taken from the low s bits of the address; the right *)
(* shift taken s bits too far                                              *)
SetIndex_lowbits(addr) ==
    BitsVal(Shr(Shl(addr, tag_size + b), tag_size + b))

SetIndex_overshift(addr) ==
    BitsVal(Shr(Shl(addr, tag_size), tag_size + b + s))

(* variant: the left shift s bits short, the index is the low s tag bits *)
SetIndex_tagbits(addr) ==
    BitsVal(Shr(Shl(addr, tag_size - s), tag_size + b))

SetIndex(addr) == BitsVal(Shr(Shl(addr, tag_size), tag_size + b))

InputTag(addr) == Shr(addr, s + b)

(* variant: the scan looks at line 0 only *)
HitLines_firstonly(set, tag) ==
    {li \in DOMAIN set : li = 0 /\ set[li].valid = 1 /\ set[li].tag = tag}

(* simulate_cache: the hit scan *)
HitLines(set, tag) ==
    {li \in DOMAIN set : set[li].valid = 1 /\ set[li].tag = tag}

(* variant: cache_full starts at 0 *)
CacheFull_never(set) == FALSE

CacheFull(set) == \A li \in DOMAIN set : set[li].valid = 1

(* variants: only the fallback of line 157 is returned; the scan runs from *)
(* the last line down                                                     *)
get_empty_line_zero(set) == 0

get_empty_line_last(set) ==
    IF \E li \in DOMAIN set : set[li].valid = 0
    THEN CHOOSE li \in DOMAIN set :
            /\ set[li].valid = 0
            /\ \A lj \in DOMAIN set : lj > li => set[lj].valid # 0
    ELSE 0

(* get_empty_line *)
get_empty_line(set) ==
    IF \E li \in DOMAIN set : set[li].valid = 0
    THEN CHOOSE li \in DOMAIN set :
            /\ set[li].valid = 0
            /\ \A lj \in DOMAIN set : lj < li => set[lj].valid # 0
    ELSE 0

(* get_LRU: index of the first line with the least access_count, and the *)
(* greatest access_count *)
(* variant: the comparison of line 186 reversed *)
MinUsedIndex_max(set) ==
    CHOOSE li \in DOMAIN set :
        /\ \A lj \in DOMAIN set : set[li].access_count >= set[lj].access_count
        /\ \A lj \in DOMAIN set :
              lj < li => set[lj].access_count < set[li].access_count

(* variant: the comparison of line 186 is >=, the last minimum is kept *)
MinUsedIndex_lasttie(set) ==
    CHOOSE li \in DOMAIN set :
        /\ \A lj \in DOMAIN set : set[li].access_count <= set[lj].access_count
        /\ \A lj \in DOMAIN set :
              lj > li => set[lj].access_count > set[li].access_count

MinUsedIndex(set) ==
    CHOOSE li \in DOMAIN set :
        /\ \A lj \in DOMAIN set : set[li].access_count <= set[lj].access_count
        /\ \A lj \in DOMAIN set :
              lj < li => set[lj].access_count > set[li].access_count

(* variant: used_lines[0], the minimum, is read in place of used_lines[1] *)
MaxUsed_min(set) ==
    CHOOSE m \in {set[li].access_count : li \in DOMAIN set} :
        \A li \in DOMAIN set : set[li].access_count >= m

MaxUsed(set) ==
    CHOOSE m \in {set[li].access_count : li \in DOMAIN set} :
        \A li \in DOMAIN set : set[li].access_count <= m

get_LRU(set) == [min_used_index |-> MinUsedIndex(set), max_used |-> MaxUsed(set)]

(* variant: line 239 missing, the local copy is never written back *)
HitLine_nowriteback(line) == line

(* simulate_cache, lines 235-239: the line a hit writes back *)
HitLine(line) == [line EXCEPT !.access_count = @ + 1]

(* variant: line 267 missing, the victim keeps its tag *)
ReplacedLine_keeptag(line, input_tag, max_used) ==
    [line EXCEPT !.access_count = max_used + 1]

(* simulate_cache, lines 267-268: the victim after the overwrite *)
ReplacedLine(line, input_tag, max_used) ==
    [line EXCEPT !.tag = input_tag, !.access_count = max_used + 1]

(* variant: line 275 missing, the filled line stays invalid *)
FilledLine_novalid(line, input_tag, max_used) ==
    [line EXCEPT !.tag = input_tag, !.access_count = max_used + 1]

(* simulate_cache, lines 274-276: the empty line after the fill *)
FilledLine(line, input_tag, max_used) ==
    [line EXCEPT !.tag = input_tag, !.valid = 1,
                 !.access_count = max_used + 1]

(* variant: the return of line 252 missing, a hit goes on to lines 259-277 *)
simulate_cache_noreturn(c, h, m, e, addr) ==
    LET setIndex == SetIndex(addr)
        input_tag == InputTag(addr)
        hl == HitLines(c[setIndex], input_tag)
        scanned == [li \in DOMAIN c[setIndex] |->
                      IF li \in hl THEN HitLine(c[setIndex][li])
                      ELSE c[setIndex][li]]
        lru == get_LRU(scanned)
        full == CacheFull(scanned)
        li == IF full THEN lru.min_used_index ELSE get_empty_line(scanned)
    IN  [cache |-> [c EXCEPT ![setIndex] =
                      [scanned EXCEPT ![li] =
                          IF full
                          THEN ReplacedLine(@, input_tag, lru.max_used)
                          ELSE FilledLine(@, input_tag, lru.max_used)]],
         hits |-> h + Cardinality(hl),
         misses |-> IF hl = {} THEN m + 1 ELSE m,
         evictions |-> IF full THEN e + 1 ELSE e]

(* simulate_cache: one access; the result is the cache and the counters *)
simulate_cache(c, h, m, e, addr) ==
    LET setIndex == SetIndex(addr)
        input_tag == InputTag(addr)
        query_set == c[setIndex]
        hl == HitLines(query_set, input_tag)
        lru == get_LRU(query_set)
    IN  IF hl # {}
        THEN [cache |-> [c EXCEPT ![setIndex] =
                            [li \in DOMAIN query_set |->
                                IF li \in hl THEN HitLine(query_set[li])
                                ELSE query_set[li]]],
              hits |-> h + Cardinality(hl), misses |-> m, evictions |-> e]
        ELSE IF CacheFull(query_set)
        THEN [cache |-> [c EXCEPT ![setIndex][lru.min_used_index] =
                            ReplacedLine(@, input_tag, lru.max_used)],
              hits |-> h, misses |-> m + 1, evictions |-> e + 1]
        ELSE [cache |-> [c EXCEPT ![setIndex][get_empty_line(query_set)] =
                            FilledLine(@, input_tag, lru.max_used)],
              hits |-> h, misses |-> m + 1, evictions |-> e]

----------------------------------------------------------------------------
(* main *)

ConfigOK == s >= 1 /\ E >= 1 /\ b >= 1

ParamValues(max) == (-1)..max

InitWith(ss, EE, bb, files, rec) ==
    /\ s \in ss /\ E \in EE /\ b \in bb
    /\ trace_file \in files
    /\ pc = "parsed"
    /\ read_trace = "unset"
    /\ cache = <<>>
    /\ hits = 0 /\ misses = 0 /\ evictions = 0
    /\ cmd = "" /\ address = {}
    /\ nread = 0 /\ issued = 0 /\ ncalls = 0
    /\ lastUse = <<>>
    /\ recording = rec
    /\ trace = <<>>
    /\ allocs = 0 /\ frees = 0

(* the state after the getopt loop: every option value atoi can give, and *)
(* trace_file either set by -t or left uninitialised (NULL or not)         *)
Init ==
    InitWith(ParamValues(MaxS), ParamValues(MaxE), ParamValues(MaxB),
             {"path", "null", "garbage"}, FALSE)

(* the scenarios' configuration s = 1, b = 1 with every E that passes the *)
(* check and E = 0, with the records read kept                            *)
InitHist == InitWith({1}, 0..MaxE, {1}, {"path"}, TRUE)

MissingArgument == s = 0 \/ E = 0 \/ b = 0 \/ trace_file = "null"

(* lines 334-338: printUsage exits *)
CheckArgs ==
    /\ pc = "parsed"
    /\ MissingArgument
    /\ pc' = "usage"
    /\ UNCHANGED <<s, E, b, trace_file, read_trace, cache, hits, misses,
                   evictions, cmd, address, nread, issued, ncalls, lastUse,
                   recording, trace, allocs, frees>>

(* lines 341-349: pow, bit_pow, build_cache, fopen.  bit_pow shifts by b, *)
(* undefined for b < 0: the run stops there or goes on (block_size is     *)
(* never used).  pow(2.0, s) truncates to 0 sets for s < 0; no line is    *)
(* built for E < 0.  fopen of an uninitialised trace_file is undefined:   *)
(* the run stops, or fopen finds no file under the stray pointer and      *)
(* returns NULL.                                                          *)
Build ==
    /\ pc = "parsed"
    /\ ~MissingArgument
    /\ \/ /\ b < 0
          /\ pc' = "undefined"
          /\ UNCHANGED <<cache, read_trace, lastUse, allocs>>
       \/ /\ cache' = build_cache(IF s >= 1 THEN Pow2(s) ELSE 0,
                                  IF E >= 1 THEN E ELSE 0)
          /\ lastUse' = [si \in DOMAIN cache' |->
                           [li \in DOMAIN cache'[si] |-> 0]]
          /\ allocs' = allocs + 1
          /\ \/ /\ trace_file = "garbage"
                /\ pc' = "undefined"
                /\ UNCHANGED read_trace
             \/ /\ pc' = "loop"
                /\ read_trace' \in IF trace_file = "garbage"
                                   THEN {"NULL"} ELSE {"open", "NULL"}
    /\ hits' = 0 /\ misses' = 0 /\ evictions' = 0
    /\ UNCHANGED <<s, E, b, trace_file, cmd, address, nread, issued, ncalls,
                   recording, trace, frees>>

(* one call par = simulate_cache(this_cache, par, addr); with a negative   *)
(* s, E or b the call shifts by a count outside 0..63, indexes a set that *)
(* was not built or reads lines[0] of a set without lines: undefined      *)
Call(addr, next) ==
    IF ConfigOK
    THEN LET r == simulate_cache(cache, hits, misses, evictions, addr)
             si == SetIndex(addr)
         IN  /\ cache' = r.cache
             /\ hits' = r.hits
             /\ misses' = r.misses
             /\ evictions' = r.evictions
             /\ ncalls' = ncalls + 1
             /\ lastUse' = [lastUse EXCEPT ![si] =
                              [li \in DOMAIN lastUse[si] |->
                                 IF r.cache[si][li] # cache[si][li]
                                 THEN ncalls + 1 ELSE lastUse[si][li]]]
             /\ pc' = next
    ELSE /\ pc' = "undefined"
         /\ ncalls' = ncalls + 1
         /\ UNCHANGED <<cache, hits, misses, evictions, lastUse>>

CanRead(n) ==
    /\ pc = "loop"
    /\ read_trace = "open"
    /\ nread < (IF recording THEN MaxHist ELSE MaxTrace)
    /\ issued + n <= MaxCalls

(* line 353: fscanf stores a record *)
Scan(c, addr, n) ==
    /\ cmd' = c
    /\ address' = addr
    /\ nread' = nread + 1
    /\ issued' = issued + n
    /\ trace' = IF recording
                THEN Append(trace, [cmd |-> c, address |-> addr])
                ELSE trace
    /\ UNCHANGED <<s, E, b, trace_file, read_trace, recording, allocs, frees>>

(* variant: an instruction record is simulated like a load *)
ReadI_asLoad ==
    /\ CanRead(0)
    /\ \E addr \in Addrs : Scan("I", addr, 0) /\ Call(addr, "loop")

(* lines 355-356 *)
ReadI ==
    /\ CanRead(0)
    /\ \E addr \in Addrs : Scan("I", addr, 0)
    /\ UNCHANGED <<pc, cache, hits, misses, evictions, ncalls, lastUse>>

(* lines 357-359 *)
ReadL ==
    /\ CanRead(1)
    /\ \E addr \in Addrs : Scan("L", addr, 1) /\ Call(addr, "loop")

(* lines 360-362 *)
ReadS ==
    /\ CanRead(1)
    /\ \E addr \in Addrs : Scan("S", addr, 1) /\ Call(addr, "loop")

(* variant: a modify makes one call only *)
ReadM_once ==
    /\ CanRead(2)
    /\ \E addr \in Addrs : Scan("M", addr, 2) /\ Call(addr, "loop")

(* lines 363-364: the first call of a modify *)
ReadM ==
    /\ CanRead(2)
    /\ \E addr \in Addrs : Scan("M", addr, 2) /\ Call(addr, "M2")

(* line 365: the second call of a modify *)
ModifyStore ==
    /\ pc = "M2"
    /\ Call(address, "loop")
    /\ UNCHANGED <<s, E, b, trace_file, read_trace, cmd, address, nread,
                   issued, recording, trace, allocs, frees>>

(* lines 352-380: fscanf did not return 3, or the trace was never opened: *)
(* printSummary, clear_cache, then fclose, undefined on a NULL stream     *)
Finish ==
    /\ pc = "loop"
    /\ frees' = frees + 1
    /\ IF read_trace = "NULL"
       THEN pc' \in {"done", "undefined"}
       ELSE pc' = "done"
    /\ UNCHANGED <<s, E, b, trace_file, read_trace, cache, hits, misses,
                   evictions, cmd, address, nread, issued, ncalls, lastUse,
                   recording, trace, allocs>>

Next ==
    \/ CheckArgs
    \/ Build
    \/ ReadI
    \/ ReadL
    \/ ReadS
    \/ ReadM
    \/ ModifyStore
    \/ Finish

Spec == Init /\ [][Next]_vars

SpecHist == InitHist /\ [][Next]_vars

----------------------------------------------------------------------------
(* Vocabulary of the properties *)

(* the decomposition of section 4.1: offset = low b bits, set index = next *)
(* s bits, tag = the remaining high bits                                   *)
OffsetBits(a) == {i \in a : i < b}
SetBits(a) == {i - b : i \in {x \in a : x >= b /\ x < b + s}}
TagBits(a) == {i - (s + b) : i \in {x \in a : x >= s + b}}
SetNo(a) == BitsVal(SetBits(a))

(* a step that performs one cache access, to address' *)
Accessed == ConfigOK /\ ncalls' = ncalls + 1

Lines(si) == DOMAIN cache[si]
Resident(c, si, tag) ==
    \E li \in DOMAIN c[si] : c[si][li].valid = 1 /\ c[si][li].tag = tag
Built == ConfigOK /\ pc \in {"loop", "M2", "done"}

----------------------------------------------------------------------------
(* C1: after any prefix of the trace, hits + misses is the number of      *)
(* accesses the records read call for: one per Load or Store, two per     *)
(* Modify, none per Instruction.                                          *)
C1_HitsPlusMisses ==
    (ConfigOK /\ pc \in {"loop", "done"}) => hits + misses = issued

C1_Witness ==
    /\ ConfigOK /\ pc = "loop" /\ nread = 3 /\ issued = 4
    /\ cmd = "I" /\ hits = 2 /\ misses = 2

(* C2: a miss on a full set evicts the line of that set whose most recent *)
(* access (fill or hit) is the oldest.                                    *)
C2_EvictsLeastRecentlyUsed ==
    [][(Accessed /\ evictions' = evictions + 1) =>
         \A si \in DOMAIN cache : \A li \in Lines(si) :
            cache'[si][li] # cache[si][li] =>
               \A lj \in Lines(si) : lastUse[si][li] <= lastUse[si][lj]]_vars

(* C3: the second access of a Modify is a hit, so a Modify adds at most   *)
(* one miss and one eviction, both on its first access; a single Modify   *)
(* on an empty cache gives hits = 1, misses = 1, evictions = 0.           *)
C3_ModifyFirst ==
    (Accessed /\ cmd' = "M" /\ pc' = "M2") =>
        \/ hits' = hits + 1 /\ misses' = misses /\ evictions' = evictions
        \/ /\ hits' = hits /\ misses' = misses + 1
           /\ evictions' \in {evictions, evictions + 1}
C3_ModifySecond ==
    (Accessed /\ pc = "M2") =>
        hits' = hits + 1 /\ misses' = misses /\ evictions' = evictions
C3_SingleModify ==
    (ConfigOK /\ pc' = "loop" /\ nread' = 1 /\ cmd' = "M") =>
        hits' = 1 /\ misses' = 1 /\ evictions' = 0
C3_Modify ==
    [][C3_ModifyFirst /\ C3_ModifySecond /\ C3_SingleModify]_vars

C3_Witness ==
    /\ ConfigOK /\ pc = "loop" /\ cmd = "M" /\ nread = 2
    /\ hits = 1 /\ misses = 2 /\ evictions = 1

(* C4: an access whose tag is resident in its set adds 1 to that line's   *)
(* recency and 1 to hits and changes nothing else.                        *)
C4_HitFrame ==
    [][(Accessed /\ Resident(cache, SetNo(address'), TagBits(address'))) =>
         /\ hits' = hits + 1
         /\ misses' = misses
         /\ evictions' = evictions
         /\ \A si \in DOMAIN cache : \A li \in Lines(si) :
              IF /\ si = SetNo(address')
                 /\ cache[si][li].valid = 1
                 /\ cache[si][li].tag = TagBits(address')
              THEN cache'[si][li] =
                     [cache[si][li] EXCEPT !.access_count = @ + 1]
              ELSE cache'[si][li] = cache[si][li]]_vars

C4_Witness ==
    /\ ConfigOK /\ pc = "loop" /\ hits = 2 /\ E = 2
    /\ \E si \in DOMAIN cache :
          /\ cache[si][0].valid = 1 /\ cache[si][1].valid = 1
          /\ cache[si][1].access_count = 4

(* C5: no two valid lines of a set hold the same tag.                     *)
C5_NoDuplicateTags ==
    Built =>
        \A si \in DOMAIN cache : \A li, lj \in Lines(si) :
            (/\ li # lj
             /\ cache[si][li].valid = 1
             /\ cache[si][lj].valid = 1) =>
                cache[si][li].tag # cache[si][lj].tag

C5_Witness ==
    /\ Built /\ E = 2 /\ evictions >= 1 /\ hits >= 1
    /\ \E si \in DOMAIN cache :
          cache[si][0].valid = 1 /\ cache[si][1].valid = 1

(* C6: a resident tag stays resident until an access to its set with a    *)
(* different tag misses; an access that hits leaves its tag resident and  *)
(* an access to a resident tag hits, so the access to the same address    *)
(* right after a hit is a hit.                                            *)
C6_StaysResident ==
    \A si \in DOMAIN cache : \A li \in Lines(si) :
        cache[si][li].valid = 1 =>
            \/ Resident(cache', si, cache[si][li].tag)
            \/ /\ Accessed
               /\ SetNo(address') = si
               /\ TagBits(address') # cache[si][li].tag
               /\ misses' = misses + 1
C6_HitAgain ==
    /\ (Accessed /\ hits' = hits + 1) =>
          Resident(cache', SetNo(address'), TagBits(address'))
    /\ (Accessed /\ Resident(cache, SetNo(address'), TagBits(address'))) =>
          hits' = hits + 1 /\ misses' = misses
C6_HitThenHit == [][C6_StaysResident /\ C6_HitAgain]_vars

C6_Witness ==
    /\ Built /\ pc = "loop" /\ E = 1 /\ s = 1 /\ hits = 2 /\ misses = 2
    /\ evictions = 0 /\ nread = 4
    /\ cache[0][0].valid = 1 /\ cache[1][0].valid = 1

(* the addresses of the accesses made so far, from the records kept *)
RECURSIVE AccessSeq(_)
AccessSeq(tr) ==
    IF tr = <<>> THEN <<>>
    ELSE LET r == tr[Len(tr)]
             q == AccessSeq(SubSeq(tr, 1, Len(tr) - 1))
         IN  IF r.cmd = "I" THEN q
             ELSE IF r.cmd = "M" THEN q \o <<r.address, r.address>>
             ELSE Append(q, r.address)

Done ==
    LET q == AccessSeq(trace)
    IN  IF pc = "M2" THEN SubSeq(q, 1, Len(q) - 1) ELSE q

(* the tags of the accesses of q that went to set si, in order *)
RECURSIVE TagsIn(_, _)
TagsIn(q, si) ==
    IF q = <<>> THEN <<>>
    ELSE LET a == q[Len(q)]
             r == TagsIn(SubSeq(q, 1, Len(q) - 1), si)
         IN  IF SetNo(a) = si THEN Append(r, TagBits(a)) ELSE r

Distinct(q) == \A i, j \in 1..Len(q) : i # j => q[i] # q[j]
Range(q) == {q[i] : i \in 1..Len(q)}
L(a) == [cmd |-> "L", address |-> a]

(* C7: with E = 1, an access that follows an access to another tag of the *)
(* same set is a miss with an eviction, never a hit; L 10 / L 18 on the   *)
(* empty cache of s = E = b = 1 gives hits 0, misses 2, evictions 1.      *)
C7_AfterOther ==
    (Accessed /\ recording /\ E = 1 /\ Done # <<>>) =>
        LET y == Done[Len(Done)]
        IN  (SetNo(y) = SetNo(address') /\ TagBits(y) # TagBits(address')) =>
               /\ hits' = hits
               /\ misses' = misses + 1
               /\ evictions' = evictions + 1
C7_Scenario ==
    (s = 1 /\ E = 1 /\ b = 1 /\ pc = "loop" /\ trace = <<L(A10), L(A18)>>) =>
        hits = 0 /\ misses = 2 /\ evictions = 1
C7_DirectMapped == [][C7_AfterOther /\ C7_Scenario']_vars

C7_Witness ==
    /\ E = 1 /\ pc = "loop" /\ trace = <<L(A10), L(A18), L(A10)>>
    /\ hits = 0 /\ misses = 3 /\ evictions = 2

(* C8: with E >= 2, the first E accesses of a set, to pairwise distinct    *)
(* tags t1..tE, all miss without eviction and leave the E lines valid;    *)
(* the next access of the set, to a tag not among them, evicts t1 and     *)
(* leaves t2..tE resident.                                                *)
C8_Step ==
    (Accessed /\ recording /\ E >= 2) =>
        LET si == SetNo(address')
            t == TagBits(address')
            q == TagsIn(Done, si)
        IN  (Distinct(q) /\ t \notin Range(q)) =>
               /\ Len(q) < E =>
                    /\ misses' = misses + 1
                    /\ evictions' = evictions
                    /\ hits' = hits
                    /\ \A li \in Lines(si) :
                          cache'[si][li].valid = 1 <=> li <= Len(q)
               /\ Len(q) = E =>
                    /\ misses' = misses + 1
                    /\ evictions' = evictions + 1
                    /\ ~Resident(cache', si, q[1])
                    /\ \A i \in 2..E : Resident(cache', si, q[i])
                    /\ Resident(cache', si, t)
C8_FillThenEvictFirst == [][C8_Step]_vars

C8_Witness ==
    /\ E = 2 /\ pc = "loop" /\ trace = <<L(A10), L(A18), L(A20)>>
    /\ misses = 3 /\ evictions = 1
    /\ ~Resident(cache, 0, TagBits(A10))
    /\ Resident(cache, 0, TagBits(A18))

(* C9: with s = E = b = 1 and an empty cache, L 10 / L 20 / L 10 puts     *)
(* 0x10 and 0x20 in different sets and ends with hits 1, misses 2,        *)
(* evictions 0.                                                           *)
C9_Run ==
    s = 1 /\ E = 1 /\ b = 1 /\ pc = "loop"
    /\ trace = <<L(A10), L(A20), L(A10)>>
C9_DifferentSets ==
    C9_Run =>
        /\ SetIndex(A10) # SetIndex(A20)
        /\ hits = 1 /\ misses = 2 /\ evictions = 0

(* C9 as amended: the two addresses fall in the same set with different   *)
(* tags, so each access evicts the other: hits 0, misses 3, evictions 2.  *)
C9_SameSet ==
    C9_Run =>
        /\ SetIndex(A10) = SetIndex(A20)
        /\ InputTag(A10) # InputTag(A20)
        /\ hits = 0 /\ misses = 3 /\ evictions = 2

C9_Witness == C9_Run /\ cache[0][0].tag = {2} /\ cache[1][0].valid = 0

(* C10: the set index is floor(address / 2^b) mod 2^s, within 0..S-1, the *)
(* tag is floor(address / 2^(s+b)), and the low b bits influence neither. *)
NatBits(n) == {i \in 0..(s - 1) : (n \div Pow2(i)) % 2 = 1}
C10_Decomposition ==
    (ConfigOK /\ pc \in {"loop", "M2"}) =>
        LET a == address
        IN  /\ SetIndex(a) \in 0..(Pow2(s) - 1)
            /\ InputTag(a) \subseteq 0..(AddrBits - 1 - (s + b))
            /\ Shl(InputTag(a), s + b) \cup Shl(NatBits(SetIndex(a)), b)
                   \cup OffsetBits(a) = a
            /\ \A o \in SUBSET (0..(b - 1)) :
                  /\ SetIndex((a \ OffsetBits(a)) \cup o) = SetIndex(a)
                  /\ InputTag((a \ OffsetBits(a)) \cup o) = InputTag(a)

C10_Witness ==
    /\ Built /\ ncalls >= 1 /\ s = 1 /\ b = 1
    /\ address = AHi /\ SetIndex(address) = 1 /\ OffsetBits(address) = {0}
    /\ InputTag(address) = {2, 61}

(* C11: when s, E or b is not positive, or no trace file was given, the   *)
(* run ends in the configuration error before the cache is built and no   *)
(* access is ever simulated.                                              *)
BadConfig == s <= 0 \/ E <= 0 \/ b <= 0 \/ trace_file # "path"
C11_BadConfigRejected ==
    BadConfig => /\ pc \in {"parsed", "usage"}
                 /\ allocs = 0
                 /\ ncalls = 0

(* C12: an Instruction record leaves every line of the cache and the      *)
(* three counters unchanged.                                              *)
C12_InstructionSkipped ==
    [][(nread' = nread + 1 /\ cmd' = "I") =>
          /\ cache' = cache
          /\ hits' = hits /\ misses' = misses /\ evictions' = evictions
          /\ ncalls' = ncalls]_vars

C12_Witness ==
    /\ Built /\ pc = "loop" /\ cmd = "I" /\ nread = 3
    /\ hits = 1 /\ misses = 1 /\ evictions = 0
    /\ \E si \in DOMAIN cache : cache[si][0].valid = 1

(* C13: the counters never decrease; an access adds 1 to exactly one of   *)
(* hits and misses and 0 or 1 to evictions, and evictions grows only on   *)
(* an access that adds to misses.                                         *)
C13_Step ==
    /\ hits' >= hits /\ misses' >= misses /\ evictions' >= evictions
    /\ Accessed =>
          /\ \/ hits' = hits + 1 /\ misses' = misses
             \/ hits' = hits /\ misses' = misses + 1
          /\ evictions' \in {evictions, evictions + 1}
    /\ evictions' # evictions => (Accessed /\ misses' = misses + 1)
C13_CountersMonotone == [][C13_Step]_vars

C13_Witness ==
    /\ Built /\ pc = "done" /\ hits = 1 /\ misses = 3 /\ evictions = 2

(* C14: in every run that passes the configuration check the cache is     *)
(* allocated exactly once before the first access and released exactly    *)
(* once after the last, on every exit path; no access is made before the  *)
(* allocation or after the release.                                       *)
Lifecycle ==
    /\ allocs <= 1 /\ frees <= allocs
    /\ ncalls > 0 => allocs = 1
    /\ pc \in {"loop", "M2"} => allocs = 1 /\ frees = 0
    /\ pc = "done" => allocs = 1
    /\ (pc \in {"done", "undefined"} /\ allocs = 1) => frees = 1
C14_AllocatedOnceReleasedOnce ==
    pc \notin {"parsed", "usage"} => Lifecycle

(* the same for the runs whose s, E and b are positive and whose trace    *)
(* file was given, including the one whose trace file cannot be opened    *)
C14_PositiveConfig ==
    (~BadConfig /\ pc \notin {"parsed", "usage"}) => Lifecycle

(* what the properties say of one set: its recency bounds and its lines *)
MaxRecency(set) ==
    CHOOSE m \in {set[li].access_count : li \in DOMAIN set} :
        \A li \in DOMAIN set : m >= set[li].access_count
MinRecency(set) ==
    CHOOSE m \in {set[li].access_count : li \in DOMAIN set} :
        \A li \in DOMAIN set : m <= set[li].access_count
Invalid(set) == {li \in DOMAIN set : set[li].valid = 0}
Lowest(S) == CHOOSE x \in S : \A y \in S : x <= y
OthersKept(si, dest) ==
    \A sj \in DOMAIN cache : \A li \in Lines(sj) :
        (sj # si \/ li # dest) => cache'[sj][li] = cache[sj][li]

(* C15: a miss on a set with an invalid line adds 1 to misses, leaves     *)
(* evictions, and fills the lowest invalid line with the tag and the      *)
(* recency (maximum of the set before) + 1; no other line changes.        *)
C15_Step ==
    LET si == SetNo(address')
        t == TagBits(address')
    IN  (/\ Accessed
         /\ ~Resident(cache, si, t)
         /\ Invalid(cache[si]) # {}) =>
            LET dest == Lowest(Invalid(cache[si]))
            IN  /\ misses' = misses + 1
                /\ evictions' = evictions
                /\ hits' = hits
                /\ cache'[si][dest] =
                      [valid |-> 1, tag |-> t,
                       access_count |-> MaxRecency(cache[si]) + 1]
                /\ OthersKept(si, dest)
C15_FillLowestInvalid == [][C15_Step]_vars

C15_Witness ==
    /\ Built /\ E = 2 /\ hits = 1 /\ misses = 2 /\ evictions = 0
    /\ \E si \in DOMAIN cache :
          /\ cache[si][0].access_count = 2
          /\ cache[si][1].valid = 1 /\ cache[si][1].access_count = 3

(* C16: a miss on a full set adds 1 to misses and to evictions and        *)
(* overwrites the line of least recency, the lowest index among ties,     *)
(* with the tag and the recency (maximum before) + 1; the line stays      *)
(* valid and no other line changes.                                       *)
C16_Step ==
    LET si == SetNo(address')
        t == TagBits(address')
    IN  (/\ Accessed
         /\ ~Resident(cache, si, t)
         /\ Invalid(cache[si]) = {}) =>
            LET victim ==
                  Lowest({li \in Lines(si) :
                      cache[si][li].access_count = MinRecency(cache[si])})
            IN  /\ misses' = misses + 1
                /\ evictions' = evictions + 1
                /\ hits' = hits
                /\ cache'[si][victim] =
                      [valid |-> 1, tag |-> t,
                       access_count |-> MaxRecency(cache[si]) + 1]
                /\ OthersKept(si, victim)
C16_EvictMinimum == [][C16_Step]_vars

C16_Witness ==
    /\ Built /\ E = 2 /\ hits = 1 /\ misses = 3 /\ evictions = 1
    /\ \E si \in DOMAIN cache :
          /\ cache[si][0].access_count = 3
          /\ cache[si][1].access_count = 2

(* C17: right after a miss the line that took the tag has a recency above *)
(* every other line of its set; so with E >= 2 the miss on the same set   *)
(* that follows directly does not evict it.                               *)
Newest(c, si, li) ==
    \A lj \in DOMAIN c[si] :
        lj # li => c[si][li].access_count > c[si][lj].access_count
C17_Promoted ==
    (Accessed /\ misses' = misses + 1) =>
        \A li \in Lines(SetNo(address')) :
            cache'[SetNo(address')][li] # cache[SetNo(address')][li] =>
                /\ cache'[SetNo(address')][li].tag = TagBits(address')
                /\ Newest(cache', SetNo(address'), li)
C17_Kept ==
    (Accessed /\ misses' = misses + 1 /\ E >= 2 /\ ncalls > 0) =>
        \A li \in Lines(SetNo(address')) :
            (/\ lastUse[SetNo(address')][li] = ncalls
             /\ Newest(cache, SetNo(address'), li)) =>
                cache'[SetNo(address')][li] = cache[SetNo(address')][li]
C17_NewestAfterMiss == [][C17_Promoted /\ C17_Kept]_vars

C17_Witness ==
    /\ Built /\ E = 2 /\ hits = 0 /\ misses = 4 /\ evictions = 2
    /\ \E si \in DOMAIN cache :
          /\ cache[si][0].access_count = 3
          /\ cache[si][1].access_count = 4

(* C18: misses = evictions + the number of valid lines of the cache, so   *)
(* evictions <= misses and misses - evictions <= S * E.                   *)
ValidLines ==
    {p \in UNION {{<<si, li>> : li \in Lines(si)} : si \in DOMAIN cache} :
        cache[p[1]][p[2]].valid = 1}
C18_MissesAreFillsAndEvictions ==
    Built =>
        /\ misses = evictions + Cardinality(ValidLines)
        /\ evictions <= misses
        /\ misses - evictions <= Pow2(s) * E

C18_Witness ==
    /\ Built /\ pc = "done" /\ s = 1 /\ E = 1
    /\ misses = 4 /\ evictions = 2 /\ Cardinality(ValidLines) = 2

(* C19: in every set the valid lines are a prefix of the indices, a valid *)
(* line never becomes invalid, an invalid line has tag 0 and recency 0,   *)
(* and a valid line has recency >= 1.                                     *)
C19_Shape ==
    Built =>
        \A si \in DOMAIN cache : \A li \in Lines(si) :
            IF cache[si][li].valid = 1
            THEN /\ cache[si][li].access_count >= 1
                 /\ \A lj \in Lines(si) : lj < li => cache[si][lj].valid = 1
            ELSE cache[si][li] = [valid |-> 0, access_count |-> 0, tag |-> {}]
C19_StaysValid ==
    \A si \in DOMAIN cache : \A li \in Lines(si) :
        cache[si][li].valid = 1 => cache'[si][li].valid = 1
C19_ValidPrefix == [][C19_Shape' /\ C19_StaysValid]_vars

C19_Witness ==
    /\ Built /\ pc = "done" /\ E = 2 /\ evictions = 1
    /\ \E si, sj \in DOMAIN cache :
          /\ cache[si][0].valid = 1 /\ cache[si][1].valid = 0
          /\ cache[sj][0].valid = 1 /\ cache[sj][1].valid = 1

(* the cache with every set but si as build_cache left it *)
Isolated(si) ==
    [sj \in DOMAIN cache |->
        IF sj = si THEN cache[sj]
        ELSE [li \in Lines(sj) |->
                [valid |-> 0, access_count |-> 0, tag |-> {}]]]

(* C20: an access to set i leaves every line of every other set           *)
(* unchanged, and its outcome (hit, miss, eviction, the lines of set i)   *)
(* is the one it has when the other sets are empty: it depends on the     *)
(* earlier accesses to set i only.                                        *)
C20_OtherSetsKept ==
    Accessed =>
        \A sj \in DOMAIN cache :
            sj # SetNo(address') => cache'[sj] = cache[sj]
C20_SameSetOnly ==
    Accessed =>
        \A si \in {SetNo(address')} :
            \A alone \in {simulate_cache(Isolated(si), 0, 0, 0, address')} :
                /\ cache'[si] = alone.cache[si]
                /\ hits' - hits = alone.hits
                /\ misses' - misses = alone.misses
                /\ evictions' - evictions = alone.evictions
C20_SetsIndependent == [][C20_OtherSetsKept /\ C20_SameSetOnly]_vars

C20_Witness ==
    /\ Built /\ pc = "loop" /\ s = 1 /\ b = 1 /\ E = 1
    /\ ncalls = 4 /\ hits = 1 /\ misses = 3 /\ evictions = 1
    /\ cache[0][0].valid = 1 /\ cache[1][0].valid = 1
    /\ cache[0][0].access_count = 2 /\ cache[1][0].access_count = 2

====
